---- MODULE Spec2Model ----
(***************************************************************************)
(* patrol-read-scanner.py: a Supervisor (main) that keeps one scan worker  *)
(* process per device, and the Scan Engine (scan_device) each worker runs. *)
(***************************************************************************)
EXTENDS Integers, Sequences, FiniteSets, TLC

(* ------------------------------ bounds -------------------------------- *)
\* Largest device size (bytes) of the daemon specification.
MaxSize == 1
\* Largest device size (bytes) of the single-device scan specification.
MaxScanSize == 5
\* Largest read_size (bytes).
MaxReadSize == 2
\* Largest device size (bytes) of the auto-discovery specification.
MaxAutoSize == 0
\* Largest device size (bytes) of the specification with scheduled workers.
MaxPassSize == 3

Devices == {"sda", "sdb"}

(* ------------------------ program constants --------------------------- *)
\* errno.EIO
EIO == 5
\* an errno other than EIO a failed read can carry (ENODEV)
OtherErrnos == {19}
\* default_slowthreshold
slow_read_threshold == 1
\* default_readsize = 1024*128
default_readsize == 131072
\* Process.exitcode of a child that returned from its target
ExitReturned == 0
\* Process.exitcode of a child whose target raised
ExitRaised == 1
\* the signal Process.kill() sends; the exitcode is its negation
SIGKILL == 9
\* Process.exitcode while the child has not exited (Python's None)
ExitNone == 256
\* the exit status argparse's parser.error() ends the daemon with
ParserErrorStatus == 2
\* exitStatus while the daemon has not exited
NotExited == -1

\* measured read latencies, around the threshold
Latencies == 0 .. (slow_read_threshold + 1)

VARIABLES
    devpaths,    \* the explicit device list; <<>> is None (auto-discovery)
    readsize,    \* read() size
    size,        \* size[d]: bytes on device d
    tracing,     \* whether each worker records its pass (history)
    supPc,       \* where main is: "startup", "check", "restart", "exited"
    todo,        \* the devpaths the (re)start loop has still to visit this tick
    children,    \* main's dict: devpath -> pid
    procs,       \* pid -> the child process
    started,     \* history: devpaths a worker was ever started for
    dropped,     \* history: devpaths in children that some tick did not list
    exitStatus,  \* the daemon's exit status
    emitted,     \* the syslog messages main wrote in its latest step
    ticklog      \* history, when main's discoveries are recorded: the sets its
                 \* last two resolutions of the device list gave; else <<>>

vars == <<devpaths, readsize, size, tracing, supPc, todo, children, procs,
          started, dropped, exitStatus, emitted, ticklog>>

(* ------------------------------ helpers ------------------------------- *)
RECURSIVE SeqsUpTo(_, _)
\* every sequence over S of length <= n
SeqsUpTo(S, n) ==
    IF n = 0 THEN {<<>>}
    ELSE LET shorter == SeqsUpTo(S, n - 1)
         IN  shorter \cup {Append(s, x) : s \in shorter, x \in S}

Range(s) == {s[i] : i \in 1 .. Len(s)}

NoDuplicates(s) == \A i, j \in 1 .. Len(s) : i # j => s[i] # s[j]

\* what discover_hdd_devices() can return: the devices present, in any order
Discoveries == {s \in SeqsUpTo(Devices, Cardinality(Devices)) : NoDuplicates(s)}

\* the explicit lists a command line or config file can give (a path may repeat)
ExplicitLists == SeqsUpTo(Devices, Cardinality(Devices)) \ {<<>>}

(* --------------------------- Scan Engine ------------------------------ *)
\* mutant: the half is rounded, not truncated
IntHalf_rounded(sz) == (sz + 1) \div 2

\* int(size / 2): true division, then truncation. Exact for size < 2^53.
IntHalf(sz) == sz \div 2

\* mutant: the scan starts at the beginning whatever the flag
StartOffset_fromStart(sz, read_size, start_from_middle) == 0

\* the offset scan_device seeks to before the loop
StartOffset(sz, read_size, start_from_middle) ==
    IF start_from_middle
    THEN (IntHalf(sz) \div read_size) * read_size
    ELSE 0

\* number of bytes dev.read(read_size) returns at position pos
BytesAt(sz, pos, read_size) ==
    IF pos >= sz THEN 0
    ELSE IF sz - pos < read_size THEN sz - pos ELSE read_size

\* what one dev.read(read_size) at pos can do: return bytes after some
\* latency, or raise OSError with an errno (a medium error only where
\* there is a block to read)
ReadResults(sz, pos, read_size) ==
    {[errno |-> 0, n |-> BytesAt(sz, pos, read_size), latency |-> l] :
        l \in Latencies}
    \cup {[errno |-> e, n |-> 0, latency |-> 0] :
            e \in (IF pos < sz THEN {EIO} ELSE {}) \cup OtherErrnos}

\* mutant: the failed block is read again
SeekAfterEIO_retry(start_pos, read_size) == start_pos

\* mutant: the skip moves on by one byte, not by one block
SeekAfterEIO_byOne(start_pos, read_size) == start_pos + 1

\* "move forward but stay aligned": dev.seek(start_pos + read_size)
SeekAfterEIO(start_pos, read_size) == start_pos + read_size

\* mutant: a read that takes exactly the threshold counts as slow
IsSlow_atThreshold(latency) == latency >= slow_read_threshold

\* latency > slow_read_threshold
IsSlow(latency) == latency > slow_read_threshold

\* mutant: a short read ends the scan
EndOfDevice_shortRead(n, read_size) == n < read_size

\* len(bytes_read) == 0
EndOfDevice(n, read_size) == n = 0

\* mutant: every OSError is taken for a medium error
IsMediumError_any(errno) == TRUE

\* e.errno == errno.EIO
IsMediumError(errno) == errno = EIO

\* one iteration of the while loop, from position start_pos, given what the
\* read did: the new position, the exitcode the child ends with (ExitNone:
\* it loops on) and the sleeps made, in order
LoopBody(start_pos, read_size, res) ==
    IF res.errno # 0
    THEN IF IsMediumError(res.errno)
         THEN [pos |-> SeekAfterEIO(start_pos, read_size), exitcode |-> ExitNone,
               sleeps |-> <<"problem_backoff", "delay">>]
         ELSE [pos |-> start_pos, exitcode |-> ExitRaised, sleeps |-> <<>>]
    ELSE LET backoff == IF IsSlow(res.latency)
                        THEN <<"problem_backoff">> ELSE <<>>
         IN  IF EndOfDevice(res.n, read_size)
             THEN [pos |-> start_pos + res.n, exitcode |-> ExitReturned,
                   sleeps |-> backoff]
             ELSE [pos |-> start_pos + res.n, exitcode |-> ExitNone,
                   sleeps |-> backoff \o <<"delay">>]

is_alive(p) == procs[p].exitcode = ExitNone

\* the child proc once it has ended with exitcode code: its file object,
\* and the position it held, are gone
Exited(proc, code) == [proc EXCEPT !.pc = "exited", !.pos = 0, !.exitcode = code]

\* open(path, "rb") and the seek of a first scan; open raises when the
\* device is absent
OpenDev(p) ==
    /\ p \in DOMAIN procs
    /\ is_alive(p)
    /\ procs[p].pc = "open"
    /\ \/ procs' = [procs EXCEPT ![p] = Exited(@, ExitRaised)]
       \/ procs' = [procs EXCEPT
                      ![p].pc = "loop",
                      ![p].pos = StartOffset(size[procs[p].path], readsize,
                                             procs[p].start_from_middle)]
    /\ UNCHANGED <<devpaths, readsize, size, tracing, supPc, todo, children,
                   started, dropped, exitStatus, emitted, ticklog>>

\* one iteration of scan_device's loop in child p
Iterate(p) ==
    /\ p \in DOMAIN procs
    /\ is_alive(p)
    /\ procs[p].pc = "loop"
    /\ \E res \in ReadResults(size[procs[p].path], procs[p].pos, readsize) :
         LET out == LoopBody(procs[p].pos, readsize, res)
             entry == [start_pos |-> procs[p].pos, res |-> res,
                       sleeps |-> out.sleeps, end_pos |-> out.pos]
             logged == [procs[p] EXCEPT
                          !.log = IF tracing THEN Append(@, entry) ELSE @]
         IN  procs' = [procs EXCEPT
                         ![p] = IF out.exitcode = ExitNone
                                THEN [logged EXCEPT !.pos = out.pos]
                                ELSE Exited(logged, out.exitcode)]
    /\ UNCHANGED <<devpaths, readsize, size, tracing, supPc, todo, children,
                   started, dropped, exitStatus, emitted, ticklog>>

(* ---------------------------- Supervisor ------------------------------ *)
\* sys.exit(main()): main returns None, which sys.exit turns into status 0
SysExit(ret) == IF ret = "None" THEN 0 ELSE 1

\* the messages main can write
MsgStarting == "INFO: main thread starting"
MsgInitialSet == "INFO: initial set of discovered spinning disks"
MsgNoDevices == "ERROR: no device paths specified and no spinning disks discovered"
MsgTerminating == "ERROR: terminating because a child encountered an error"

\* the record of main's last two resolutions, with the set devs added
Recorded(devs) == IF ticklog = <<>> THEN <<>> ELSE <<ticklog[2], devs>>

\* mutant: the validation is left out
NoDevices_unchecked(found) == FALSE

\* "if not devpaths and not discover_hdd_devices()"
NoDevices(found) == devpaths = <<>> /\ found = <<>>

\* devpaths or discover_hdd_devices()
Resolved(found) == IF devpaths # <<>> THEN devpaths ELSE found

\* the validation before the main loop; discover_hdd_devices() runs once
\* for the message and once more for the test
Startup ==
    /\ supPc = "startup"
    /\ \E found \in Discoveries :
         /\ IF NoDevices(found)
            THEN /\ supPc' = "exited"
                 /\ exitStatus' = ParserErrorStatus
                 /\ emitted' = <<MsgStarting, MsgInitialSet, MsgNoDevices>>
            ELSE /\ supPc' = "check"
                 /\ emitted' = IF devpaths = <<>>
                               THEN <<MsgStarting, MsgInitialSet>>
                               ELSE <<MsgStarting>>
                 /\ UNCHANGED exitStatus
         /\ ticklog' = Recorded(Range(Resolved(found)))
    /\ UNCHANGED <<devpaths, readsize, size, tracing, todo, children, procs,
                   started, dropped>>

\* "exit if any child encountered a fatal error"
FatalFound == \E d \in DOMAIN children : procs[children[d]].exitcode = ExitRaised

\* mutant: the kill is left out
KillAlive_none(ps) == ps

\* [p.kill() for p in children.values() if p.is_alive()]
KillAlive(ps) ==
    [p \in DOMAIN ps |->
        IF ps[p].exitcode = ExitNone /\ \E d \in DOMAIN children : children[d] = p
        THEN Exited(ps[p], -SIGKILL)
        ELSE ps[p]]

\* "for devpath in devpaths or discover_hdd_devices()"
LoopList(found) == Resolved(found)

\* the top of the main loop: the fatal check, then the list the (re)start
\* loop will visit
FatalCheck ==
    /\ supPc = "check"
    /\ IF FatalFound
       THEN /\ procs' = KillAlive(procs)
            /\ supPc' = "exited"
            /\ exitStatus' = SysExit("None")
            /\ emitted' = <<MsgTerminating>>
            /\ UNCHANGED <<todo, dropped, ticklog>>
       ELSE /\ supPc' = "restart"
            /\ \E found \in Discoveries :
                 /\ todo' = LoopList(found)
                 /\ dropped' = dropped \cup (DOMAIN children \ Range(Resolved(found)))
                 /\ ticklog' = Recorded(Range(Resolved(found)))
            /\ emitted' = <<>>
            /\ UNCHANGED <<procs, exitStatus>>
    /\ UNCHANGED <<devpaths, readsize, size, tracing, children, started>>

\* mutant: a devpath is restarted without asking whether its child is alive
LeaveAlone_noAliveCheck(devpath) == FALSE

\* mutant: a devpath that has a child is never started again
LeaveAlone_onceStarted(devpath) == devpath \in DOMAIN children

\* "if devpath in children: if children[devpath].is_alive(): continue"
LeaveAlone(devpath) ==
    devpath \in DOMAIN children /\ is_alive(children[devpath])

\* mutant: the restart branch passes start_from_middle=True as well
StartFromMiddle_always(devpath) == TRUE

\* whether the worker started for devpath gets start_from_middle=True
StartFromMiddle(devpath) == devpath \notin DOMAIN children

\* a pid no process has
FreshPid(ps) == CHOOSE n \in 1 .. (Cardinality(DOMAIN ps) + 1) : n \notin DOMAIN ps

\* the Process objects still referenced by children, or still running
Reap(ps, ch) ==
    LET keep == {p \in DOMAIN ps :
                    \/ ps[p].exitcode = ExitNone
                    \/ \E d \in DOMAIN ch : ch[d] = p}
    IN  [p \in keep |-> ps[p]]

\* mp.Process(target=scan_device_wrapper, ...).start(); after is history:
\* the exitcode of the child this one replaces (ExitNone: it replaces none)
\* and rejoined that devpath had dropped out of an earlier tick's list
NewProcess(devpath, from_middle, prev) ==
    [path |-> devpath, start_from_middle |-> from_middle, pc |-> "open",
     pos |-> 0, exitcode |-> ExitNone, log |-> <<>>, after |-> prev,
     rejoined |-> devpath \in dropped]

\* one iteration of the (re)start loop
RestartStep ==
    /\ supPc = "restart"
    /\ todo # <<>>
    /\ LET devpath == Head(todo)
           pid == FreshPid(procs)
           ch == [d \in DOMAIN children \cup {devpath} |->
                     IF d = devpath THEN pid ELSE children[d]]
           prev == IF devpath \in DOMAIN children
                   THEN procs[children[devpath]].exitcode ELSE ExitNone
       IN  IF LeaveAlone(devpath)
           THEN UNCHANGED <<children, procs, started>>
           ELSE /\ children' = ch
                /\ procs' = Reap([p \in DOMAIN procs \cup {pid} |->
                                    IF p = pid
                                    THEN NewProcess(devpath, StartFromMiddle(devpath), prev)
                                    ELSE procs[p]], ch)
                /\ started' = started \cup {devpath}
    /\ todo' = Tail(todo)
    /\ emitted' = <<>>
    /\ UNCHANGED <<devpaths, readsize, size, tracing, supPc, dropped, exitStatus,
                   ticklog>>

\* sleep(args.main_loop_sleep) once the loop has visited every devpath; the
\* next tick begins with the fatal check
MainLoopSleep ==
    /\ supPc = "restart"
    /\ todo = <<>>
    /\ supPc' = "check"
    /\ emitted' = <<>>
    /\ UNCHANGED <<devpaths, readsize, size, tracing, todo, children, procs,
                   started, dropped, exitStatus, ticklog>>

(* ------------------------- specifications ----------------------------- *)
InitCommon ==
    /\ supPc = "startup"
    /\ todo = <<>>
    /\ children = <<>>
    /\ procs = <<>>
    /\ started = {}
    /\ dropped = {}
    /\ exitStatus = NotExited
    /\ emitted = <<>>

\* the daemon: any mode, every device
Init ==
    /\ InitCommon
    /\ devpaths \in ExplicitLists \cup {<<>>}
    /\ readsize \in 1 .. MaxReadSize
    /\ size \in [Devices -> 0 .. MaxSize]
    /\ tracing = FALSE
    /\ ticklog = <<>>

\* the daemon on one listed device, each worker recording its pass
InitScan ==
    /\ InitCommon
    /\ devpaths = <<"sda">>
    /\ readsize \in 1 .. MaxReadSize
    /\ size \in {[d \in Devices |-> IF d = "sda" THEN s ELSE 0] : s \in 0 .. MaxScanSize}
    /\ tracing = TRUE
    /\ ticklog = <<>>

\* the daemon on one listed device of 1,048,576 bytes, read with the default
\* read size
InitScenarioA ==
    /\ InitCommon
    /\ devpaths = <<"sda">>
    /\ readsize = default_readsize
    /\ size = [d \in Devices |-> IF d = "sda" THEN 8 * default_readsize ELSE 0]
    /\ tracing = FALSE
    /\ ticklog = <<>>

\* the daemon in auto-discovery mode, its resolutions recorded
InitAuto ==
    /\ InitCommon
    /\ devpaths = <<>>
    /\ readsize = 1
    /\ size \in [Devices -> 0 .. MaxAutoSize]
    /\ tracing = FALSE
    /\ ticklog = <<{}, {}>>

Next ==
    \/ Startup
    \/ FatalCheck
    \/ RestartStep
    \/ MainLoopSleep
    \/ \E p \in DOMAIN procs : OpenDev(p)
    \/ \E p \in DOMAIN procs : Iterate(p)

Spec == Init /\ [][Next]_vars

SpecScan == InitScan /\ [][Next]_vars

SpecAuto == InitAuto /\ [][Next]_vars

SpecScenarioA == InitScenarioA /\ [][Next]_vars

\* the daemon on one listed device of at most MaxPassSize bytes, each worker
\* recording its pass
InitPass ==
    /\ InitCommon
    /\ devpaths = <<"sda">>
    /\ readsize \in 1 .. MaxReadSize
    /\ size \in {[d \in Devices |-> IF d = "sda" THEN s ELSE 0] : s \in 0 .. MaxPassSize}
    /\ tracing = TRUE
    /\ ticklog = <<>>

\* the pids a child can have: one per device, and one more while a child is
\* being replaced
Pids == 1 .. (Cardinality(Devices) + 1)

\* every child is a process of its own that the system keeps running: its
\* open returns or raises, and each of its reads returns or raises
SpecPass ==
    /\ InitPass
    /\ [][Next]_vars
    /\ \A p \in Pids : WF_vars(OpenDev(p)) /\ WF_vars(Iterate(p))

(* ------------------------------ claims -------------------------------- *)
Running(p) == procs[p].exitcode = ExitNone

\* the workers of device d that are running
LiveWorkers(d) == {p \in DOMAIN procs : procs[p].path = d /\ Running(p)}

\* the (re)start loop visits devpath d in this step
Visits(d) == supPc = "restart" /\ todo # <<>> /\ Head(todo) = d /\ todo' = Tail(todo)

\* pos is the midpoint of a device of sz bytes, aligned down to read_size
AlignedMidpoint(pos, sz, read_size) ==
    /\ pos % read_size = 0
    /\ 2 * pos <= sz
    /\ sz < 2 * (pos + read_size)

\* C1: the fatal check that finds a child with exitcode 1 ends the daemon in
\* that step: every running child is killed, no child is started or replaced,
\* children that had ended keep their exitcode; and once the daemon has
\* exited no child is running.
C1_FatalShutdown ==
    /\ [][(supPc = "check" /\ FatalFound /\ supPc' # supPc) =>
            /\ supPc' = "exited"
            /\ children' = children
            /\ DOMAIN procs' = DOMAIN procs
            /\ \A p \in DOMAIN procs :
                 /\ procs'[p].exitcode # ExitNone
                 /\ ~Running(p) => procs'[p] = procs[p]]_vars
    /\ [](supPc = "exited" => \A p \in DOMAIN procs : ~Running(p))

\* C1 witness: the daemon has exited on a fatal child and killed another.
C1_Witness ==
    /\ supPc = "exited"
    /\ FatalFound
    /\ \E p \in DOMAIN procs : procs[p].exitcode = -SIGKILL

\* C2 (as claimed): when the daemon has exited because a child failed
\* fatally, its exit status is not 0.
C2_NonZeroExit == (supPc = "exited" /\ FatalFound) => exitStatus # 0

\* C3: a device never has more than one running worker.
C3_OneLiveWorker == \A d \in Devices : Cardinality(LiveWorkers(d)) <= 1

\* C3 witness: a replacement worker runs its loop while the other device has
\* a running worker too.
C3_Witness ==
    \E d, e \in DOMAIN children :
        /\ d # e
        /\ Running(children[d]) /\ Running(children[e])
        /\ procs[children[d]].after # ExitNone
        /\ procs[children[d]].pc = "loop"

\* C8: every visit of the (re)start loop to a devpath leaves that devpath
\* with a running worker, and a visit that finds the worker ended with
\* exitcode 0 starts a new process for it, from offset 0.
C8_RestartAfterPass ==
    [][\A d \in Devices : Visits(d) =>
          /\ d \in DOMAIN children'
          /\ procs'[children'[d]].exitcode = ExitNone
          /\ (d \in DOMAIN children /\ procs[children[d]].exitcode = ExitReturned) =>
                /\ children'[d] # children[d]
                /\ procs'[children'[d]].pc = "open"
                /\ ~procs'[children'[d]].start_from_middle]_vars

\* C8 witness: a worker started in place of one that completed its pass.
C8_Witness ==
    \E d \in DOMAIN children :
        Running(children[d]) /\ procs[children[d]].after = ExitReturned

\* C9: a worker is started with start_from_middle exactly when no worker was
\* ever started for its devpath before; a first worker enters its loop at the
\* aligned midpoint and every later one at offset 0.
C9_FirstScanOnly ==
    /\ [][\A d \in Devices :
            (d \in DOMAIN children' /\ (d \in DOMAIN children => children'[d] # children[d]))
            => procs'[children'[d]].start_from_middle = (d \notin started)]_vars
    /\ [][\A p \in DOMAIN procs :
            (procs[p].pc = "open" /\ p \in DOMAIN procs' /\ procs'[p].pc = "loop")
            => IF procs[p].start_from_middle
               THEN AlignedMidpoint(procs'[p].pos, size[procs[p].path], readsize)
               ELSE procs'[p].pos = 0]_vars

\* C9 witness: a device left the discovered set, came back, and the worker
\* then started for it scans from offset 0.
C9_Witness ==
    \E d \in DOMAIN children :
        /\ devpaths = <<>>
        /\ procs[children[d]].rejoined
        /\ ~procs[children[d]].start_from_middle
        /\ procs[children[d]].pc = "loop"
        /\ procs[children[d]].pos = 0

(* ---- claims about one pass, read off the record each worker keeps ---- *)
LogOf(p) == procs[p].log

\* the cursor at the start of each iteration of p so far, the one about to
\* begin included
Cursors(p) ==
    [i \in 1 .. Len(LogOf(p)) |-> LogOf(p)[i].start_pos]
    \o (IF procs[p].pc = "loop" THEN <<procs[p].pos>> ELSE <<>>)

MediumError(e) == e.res.errno = EIO
Success(e) == e.res.errno = 0
ZeroBytes(e) == Success(e) /\ e.res.n = 0
ShortRead(e) == Success(e) /\ 0 < e.res.n /\ e.res.n < readsize

\* C4: a read at offset o that fails with EIO is followed by a
\* problem_backoff sleep, the next read is at o + read_size, and no later
\* read of the pass is at o.
C4_SkipAfterEIO ==
    \A p \in DOMAIN procs : \A i \in 1 .. Len(LogOf(p)) :
        MediumError(LogOf(p)[i]) =>
            /\ LogOf(p)[i].sleeps # <<>>
            /\ LogOf(p)[i].sleeps[1] = "problem_backoff"
            /\ LogOf(p)[i].end_pos = LogOf(p)[i].start_pos + readsize
            /\ i < Len(Cursors(p)) =>
                 Cursors(p)[i + 1] = LogOf(p)[i].start_pos + readsize
            /\ \A j \in (i + 1) .. Len(Cursors(p)) :
                 Cursors(p)[j] # LogOf(p)[i].start_pos

\* C4 witness: a medium error, then the read of the next block.
C4_Witness ==
    \E p \in DOMAIN procs : \E i \in 1 .. Len(LogOf(p)) :
        /\ MediumError(LogOf(p)[i])
        /\ i < Len(LogOf(p))
        /\ LogOf(p)[i].start_pos > 0

\* C5 (as claimed): at the start of every iteration the cursor is a
\* multiple of read_size and not smaller than at the iteration before.
C5_AlignedCursor ==
    \A p \in DOMAIN procs : \A i \in 1 .. Len(Cursors(p)) :
        /\ Cursors(p)[i] % readsize = 0
        /\ i > 1 => Cursors(p)[i] >= Cursors(p)[i - 1]

\* C5 (amended): at the start of every iteration the cursor is not smaller
\* than at the iteration before, and it is a multiple of read_size unless the
\* read before it returned fewer than read_size bytes, after which the
\* cursor is the device size.
C5_AlignedUntilShortRead ==
    \A p \in DOMAIN procs : \A i \in 1 .. Len(Cursors(p)) :
        /\ \/ Cursors(p)[i] % readsize = 0
           \/ /\ i > 1
              /\ ShortRead(LogOf(p)[i - 1])
              /\ Cursors(p)[i] = size[procs[p].path]
        /\ i > 1 => Cursors(p)[i] >= Cursors(p)[i - 1]

\* C5 witness: a pass with a skipped medium error, a slow read and a short
\* final read, whose next iteration starts at the device size.
C5_Witness ==
    \E p \in DOMAIN procs : \E i, j, k \in 1 .. Len(LogOf(p)) :
        /\ MediumError(LogOf(p)[i])
        /\ Success(LogOf(p)[j]) /\ IsSlow(LogOf(p)[j].res.latency)
        /\ ShortRead(LogOf(p)[k])
        /\ Len(Cursors(p)) > k
        /\ Cursors(p)[k + 1] = size[procs[p].path]
        /\ Cursors(p)[k + 1] % readsize # 0

\* C6: a worker ends with exitcode 0 exactly when its last read returned
\* zero bytes; a zero-byte read is always the last read of its pass and
\* leaves the cursor where it was.
C6_CompletedIffZeroRead ==
    \A p \in DOMAIN procs :
        /\ procs[p].exitcode = ExitReturned
              <=> (LogOf(p) # <<>> /\ ZeroBytes(LogOf(p)[Len(LogOf(p))]))
        /\ \A i \in 1 .. Len(LogOf(p)) :
              ZeroBytes(LogOf(p)[i]) =>
                  /\ i = Len(LogOf(p))
                  /\ LogOf(p)[i].end_pos = LogOf(p)[i].start_pos

\* C6 witness: a pass of several reads has completed, away from offset 0.
C6_Witness ==
    \E p \in DOMAIN procs :
        /\ procs[p].exitcode = ExitReturned
        /\ Len(LogOf(p)) >= 3
        /\ LogOf(p)[Len(LogOf(p))].start_pos > 0

\* C7: the sleeps between a read that returned bytes and the next read are
\* problem_backoff then delay when the read was slow, and delay alone when
\* it was not.
C7_Pacing ==
    \A p \in DOMAIN procs : \A i \in 1 .. Len(LogOf(p)) :
        (Success(LogOf(p)[i]) /\ LogOf(p)[i].res.n > 0) =>
            LogOf(p)[i].sleeps =
                IF LogOf(p)[i].res.latency > slow_read_threshold
                THEN <<"problem_backoff", "delay">>
                ELSE <<"delay">>

\* C7 witness: a slow read and a read that took exactly the threshold, each
\* followed by another read.
C7_Witness ==
    \E p \in DOMAIN procs : \E i, j \in 1 .. (Len(LogOf(p)) - 1) :
        /\ Success(LogOf(p)[i]) /\ LogOf(p)[i].res.latency > slow_read_threshold
        /\ Success(LogOf(p)[j]) /\ LogOf(p)[j].res.latency = slow_read_threshold

\* a first scan is about to make its first read
AtFirstRead(p) ==
    procs[p].pc = "loop" /\ LogOf(p) = <<>> /\ procs[p].start_from_middle

Opens(p) ==
    /\ procs[p].pc = "open"
    /\ p \in DOMAIN procs'
    /\ procs'[p].pc = "loop"

\* C11 (as claimed): the first scan of a device of 1,048,576 bytes with
\* read_size 131,072 starts at offset 393,216.
C11_StartsAt393216 ==
    [][\A p \in DOMAIN procs :
         (/\ Opens(p)
          /\ procs[p].start_from_middle
          /\ size[procs[p].path] = 1048576
          /\ readsize = 131072) => procs'[p].pos = 393216]_vars

\* C11 (amended): the first scan of a device of 1,048,576 bytes with
\* read_size 131,072 starts at offset 524,288.
C11_StartsAt524288 ==
    [][\A p \in DOMAIN procs :
         (/\ Opens(p)
          /\ procs[p].start_from_middle
          /\ size[procs[p].path] = 1048576
          /\ readsize = 131072) => procs'[p].pos = 524288]_vars

\* C11 witness: the first scan of that device reads the block at 524,288.
C11_Witness ==
    \E p \in DOMAIN procs :
        /\ procs[p].start_from_middle
        /\ procs[p].pc = "loop"
        /\ procs[p].pos = 524288
        /\ size[procs[p].path] = 1048576
        /\ readsize = 131072

\* the pass of child p met no read error
ErrorFree(p) == \A i \in 1 .. Len(LogOf(p)) : Success(LogOf(p)[i])

\* the aligned offsets of a device of sz bytes
AlignedBlocks(sz) == {o \in 0 .. (sz - 1) : o % readsize = 0}

\* how many reads of child p were made at offset o
ReadsAt(p, o) == Cardinality({i \in 1 .. Len(LogOf(p)) : LogOf(p)[i].start_pos = o})

\* C12 (as claimed): a completed pass without read errors has read every
\* aligned block below S exactly once.
C12_EveryBlockOnce ==
    \A p \in DOMAIN procs :
        (procs[p].exitcode = ExitReturned /\ ErrorFree(p)) =>
            \A o \in AlignedBlocks(size[procs[p].path]) : ReadsAt(p, o) = 1

\* C12 (amended): a completed pass without read errors that follows another
\* pass of its device has read every aligned block below S exactly once; the
\* first pass of a device has read exactly once each aligned block from the
\* aligned midpoint on, and no block before it.
C12_EveryBlockFromStartOnce ==
    \A p \in DOMAIN procs :
        (procs[p].exitcode = ExitReturned /\ ErrorFree(p)) =>
            LET S == size[procs[p].path]
                first == IF procs[p].after = ExitNone
                         THEN ((S \div 2) \div readsize) * readsize
                         ELSE 0
            IN  \A o \in AlignedBlocks(S) :
                    ReadsAt(p, o) = IF o >= first THEN 1 ELSE 0

\* C12 witness: a pass of several blocks, run right after a completed pass of
\* the same device, has completed without read errors.
C12_Witness ==
    \E p \in DOMAIN procs :
        /\ procs[p].exitcode = ExitReturned
        /\ ErrorFree(p)
        /\ procs[p].after = ExitReturned
        /\ Cardinality(AlignedBlocks(size[procs[p].path])) >= 3
        /\ size[procs[p].path] % readsize # 0

\* a step of main (every step of a child leaves supPc and todo alone)
MainStep == supPc' # supPc \/ todo' # todo

\* main is in a tick whose resolved set lacks device c, which the
\* resolution before it had
AbsentOnTick(c) ==
    /\ supPc = "restart"
    /\ ticklog # <<>>
    /\ c \in ticklog[1]
    /\ c \notin ticklog[2]

\* C13: in auto-discovery mode, every step main takes on a tick whose
\* resolved set lacks a device that the previous resolution had (the fatal
\* check found no failed worker, so the tick resolved the set) writes no
\* message, does not exit, and neither kills nor replaces the running worker
\* of any other device.
C13_SilentDrop ==
    [][\A c \in Devices :
         (/\ devpaths = <<>>
          /\ MainStep
          /\ \/ AbsentOnTick(c)
             \/ /\ supPc = "check"
                /\ supPc' = "restart"
                /\ ticklog' # <<>>
                /\ c \in ticklog'[1]
                /\ c \notin ticklog'[2])
         => /\ emitted' = <<>>
            /\ supPc' # "exited"
            /\ exitStatus' = NotExited
            /\ \A d \in DOMAIN children \ {c} :
                   Running(children[d]) =>
                       /\ children'[d] = children[d]
                       /\ procs'[children[d]] = procs[children[d]]]_vars

\* C13 witness: main has finished the (re)start loop of a tick whose resolved
\* set lacks a device with a worker that has not failed, while the worker of
\* another device runs.
C13_Witness ==
    \E c \in Devices :
        /\ devpaths = <<>>
        /\ AbsentOnTick(c)
        /\ todo = <<>>
        /\ c \in DOMAIN children
        /\ procs[children[c]].exitcode # ExitRaised
        /\ \E d \in DOMAIN children \ {c} : Running(children[d]) /\ d \in ticklog[2]

\* child p ended before any read without having been killed: open raised
FailedAtOpen(p) ==
    /\ procs[p].log = <<>>
    /\ procs[p].exitcode \notin {ExitNone, -SIGKILL}

\* the exit code of a child whose read raised an error other than EIO
FatalReadExitcode ==
    LoopBody(0, readsize,
             [errno |-> CHOOSE e \in OtherErrnos : TRUE, n |-> 0, latency |-> 0]).exitcode

\* C14 (as claimed): in explicit-list mode a worker whose device could not be
\* opened never ends with the exit code of a worker that failed on a read,
\* and main does not answer it with the fatal shutdown and its message.
C14_OpenFailureDistinct ==
    \A p \in DOMAIN procs :
        (devpaths # <<>> /\ FailedAtOpen(p)) =>
            /\ procs[p].exitcode # FatalReadExitcode
            /\ ~(supPc = "exited" /\ emitted = <<MsgTerminating>>)

\* C15: when no device paths are configured and the discovery at startup
\* finds no device, the startup step ends the daemon with a non-zero exit
\* status, and no worker exists or has ever been started.
C15_NoDevicesExit ==
    [][(/\ supPc = "startup"
        /\ supPc' # supPc
        /\ devpaths = <<>>
        /\ ticklog' # <<>>
        /\ ticklog'[2] = {})
       => /\ supPc' = "exited"
          /\ exitStatus' \notin {0, NotExited}
          /\ children' = <<>>
          /\ procs' = <<>>
          /\ started' = {}]_vars

\* C15 witness: the daemon has exited at startup, no device paths configured
\* and none discovered.
C15_Witness ==
    /\ devpaths = <<>>
    /\ ticklog # <<>>
    /\ ticklog[2] = {}
    /\ started = {}
    /\ supPc = "exited"
    /\ exitStatus = ParserErrorStatus

\* C16 (as claimed): a worker that ended with a fatal error is never
\* replaced: no worker has been started in the place of a child whose
\* exitcode was 1.
C16_FailedNeverReplaced ==
    \A p \in DOMAIN procs : procs[p].after # ExitRaised

\* C17 (as claimed): in auto-discovery mode, once a tick's resolved set has
\* lacked a device, main holds no worker for it at a later fatal check
\* unless the device has come back and been given a new worker.
C17_DroppedForgotten ==
    (devpaths = <<>> /\ supPc = "check") =>
        \A d \in DOMAIN children :
            d \in dropped => procs[children[d]].rejoined

\* the read of iteration e raised an error other than a medium error
OtherFailure(e) == e.res.errno \notin {0, EIO}

\* C18: a worker that ended with a fatal error failed at open or on a last
\* read whose error was not a medium error, so a pass made of medium errors,
\* slow reads and successful reads only never ends that way; and a read
\* failing with any other error is the last read of its pass, which ends
\* with a fatal error.
C18_FatalOnlyByOtherFailure ==
    \A p \in DOMAIN procs :
        /\ procs[p].exitcode = ExitRaised =>
               \/ LogOf(p) = <<>>
               \/ OtherFailure(LogOf(p)[Len(LogOf(p))])
        /\ \A i \in 1 .. Len(LogOf(p)) :
               OtherFailure(LogOf(p)[i]) =>
                   /\ i = Len(LogOf(p))
                   /\ procs[p].exitcode = ExitRaised

\* C18 witness: a pass that met a medium error and a slow read has ended
\* with a fatal error on a later read.
C18_Witness ==
    \E p \in DOMAIN procs :
        /\ procs[p].exitcode = ExitRaised
        /\ Len(LogOf(p)) >= 3
        /\ OtherFailure(LogOf(p)[Len(LogOf(p))])
        /\ \E i \in 1 .. Len(LogOf(p)) : MediumError(LogOf(p)[i])
        /\ \E i \in 1 .. Len(LogOf(p)) :
               Success(LogOf(p)[i]) /\ IsSlow(LogOf(p)[i].res.latency)

\* C19: a step of main other than a fatal check that finds a failed worker
\* leaves every running worker as it is: the worker is not killed, its
\* cursor and exitcode are unchanged, and the table entries that hold it
\* still hold it.
C19_RunningUntouched ==
    [][(MainStep /\ ~(supPc = "check" /\ FatalFound)) =>
          \A p \in DOMAIN procs :
              Running(p) =>
                  /\ p \in DOMAIN procs'
                  /\ procs'[p] = procs[p]
                  /\ \A d \in DOMAIN children :
                         children[d] = p => children'[d] = p]_vars

\* C19 witness: main has ended a tick that found no failed worker and that
\* started a worker for one device while the worker of another, started on
\* an earlier tick, is in the middle of its pass.
C19_Witness ==
    /\ supPc = "check"
    /\ ~FatalFound
    /\ \E d \in DOMAIN children :
          /\ Running(children[d])
          /\ procs[children[d]].pc = "loop"
          /\ procs[children[d]].pos > 0
    /\ \E d \in DOMAIN children :
          /\ Running(children[d])
          /\ procs[children[d]].after # ExitNone

\* C20: every step of a child in its loop ends the pass or moves the cursor
\* forward, by at least one byte and at most read_size; and every child that
\* is running eventually is not.
C20_PassTerminates ==
    /\ [][\A p \in DOMAIN procs :
            (Running(p) /\ procs[p].pc = "loop" /\ procs'[p] # procs[p]) =>
                \/ procs'[p].exitcode # ExitNone
                \/ /\ procs'[p].pos > procs[p].pos
                   /\ procs'[p].pos <= procs[p].pos + readsize]_vars
    /\ \A p \in Pids :
          (p \in DOMAIN procs /\ Running(p)) ~> ~(p \in DOMAIN procs /\ Running(p))

\* C20 witness: a pass that began at offset 0 of a device of several blocks
\* has completed.
C20_Witness ==
    \E p \in DOMAIN procs :
        /\ procs[p].exitcode = ExitReturned
        /\ ~procs[p].start_from_middle
        /\ size[procs[p].path] > 2 * readsize

====
